---- MODULE Spec2Model ----
(***************************************************************************)
(* Model of the AutoTrader strategy object of src/TraderOne.py: two order  *)
(* slots (bid, ask), the two sets of outstanding ids, the position and the *)
(* id generator, driven by the callbacks the host runtime delivers.        *)
(***************************************************************************)
EXTENDS Integers, Sequences, FiniteSets, TLC

VARIABLES order_ids, bids, asks, ask_id, ask_price, bid_id, bid_price,
          position, sent, filled, hist

(* order_ids .. position: the fields of the AutoTrader object (order_ids   *)
(* is the next value of the itertools counter). sent: the commands the     *)
(* last callback sent to the host, in order. filled: the host's record of  *)
(* the volume filled so far of each order the strategy tracks. hist: the   *)
(* ids inserted, the ids cancelled and the ids whose terminal status was   *)
(* processed so far (recorded by HistSpec only, constant elsewhere).       *)
vars == <<order_ids, bids, asks, ask_id, ask_price, bid_id, bid_price,
          position, sent, filled, hist>>

(* ---------------- program constants ---------------- *)
LOT_SIZE == 10
POSITION_LIMIT == 100

FUTURE == "FUTURE"
ETF == "ETF"
BUY == "BUY"
SELL == "SELL"
GOOD_FOR_DAY == "GOOD_FOR_DAY"

(* ---------------- bounds of the model ---------------- *)
MaxOrderId == 3
MaxHostId == 11

Instruments == {FUTURE, ETF}
Books == {<<9900, 10100>>, <<9950, 10050>>, <<9900, 0>>, <<0, 0>>}
Volumes == {5, LOT_SIZE}
MsgIds == 0 .. (MaxOrderId + 1)
Remainings == {0, 5}
FillVolumes == {0, LOT_SIZE}
Fees == {0, 2}
(* Books with an empty ask side (price 0) whose best bids differ and whose *)
(* mid price is equal: the bid is requoted while flat, nothing else is.    *)
HostBooks == {<<9900, 0>>, <<9901, 0>>}
HostVolumes == {LOT_SIZE}

(* ---------------- the strategy object as a record ---------------- *)
State ==
  [order_ids |-> order_ids, bids |-> bids, asks |-> asks,
   ask_id |-> ask_id, ask_price |-> ask_price,
   bid_id |-> bid_id, bid_price |-> bid_price,
   position |-> position, sent |-> <<>>]

InsertCmd(id, side, price, volume, lifespan) ==
  [type |-> "insert", id |-> id, side |-> side, price |-> price,
   volume |-> volume, lifespan |-> lifespan]

CancelCmd(id) == [type |-> "cancel", id |-> id]

send_insert_order(s, id, side, price, volume, lifespan) ==
  [s EXCEPT !.sent = Append(@, InsertCmd(id, side, price, volume, lifespan))]

send_cancel_order(s, id) ==
  [s EXCEPT !.sent = Append(@, CancelCmd(id))]

(* ---------------- on_order_status_message ---------------- *)
(* Faulty variants: remaining_volume is not tested; the slot is not        *)
(* cleared; the bid slot is cleared for any id; the fill volume of the     *)
(* status is booked to position.                                           *)
on_order_status_message_IgnoresRemaining(s, client_order_id, fill_volume, remaining_volume, fees) ==
  LET s1 == IF client_order_id = s.bid_id THEN [s EXCEPT !.bid_id = 0]
            ELSE IF client_order_id = s.ask_id THEN [s EXCEPT !.ask_id = 0]
            ELSE s
  IN [s1 EXCEPT !.bids = @ \ {client_order_id},
                !.asks = @ \ {client_order_id}]

on_order_status_message_KeepsSlot(s, client_order_id, fill_volume, remaining_volume, fees) ==
  IF remaining_volume = 0
  THEN [s EXCEPT !.bids = @ \ {client_order_id},
                 !.asks = @ \ {client_order_id}]
  ELSE s

on_order_status_message_ClearsAnyBid(s, client_order_id, fill_volume, remaining_volume, fees) ==
  IF remaining_volume = 0
  THEN LET s1 == IF client_order_id = s.ask_id THEN [s EXCEPT !.ask_id = 0] ELSE s
       IN [s1 EXCEPT !.bid_id = 0,
                     !.bids = @ \ {client_order_id},
                     !.asks = @ \ {client_order_id}]
  ELSE s

on_order_status_message_BooksFill(s, client_order_id, fill_volume, remaining_volume, fees) ==
  LET s0 == IF client_order_id \in s.bids THEN [s EXCEPT !.position = @ + fill_volume]
            ELSE IF client_order_id \in s.asks THEN [s EXCEPT !.position = @ - fill_volume]
            ELSE s
  IN IF remaining_volume = 0
     THEN LET s1 == IF client_order_id = s0.bid_id THEN [s0 EXCEPT !.bid_id = 0]
                    ELSE IF client_order_id = s0.ask_id THEN [s0 EXCEPT !.ask_id = 0]
                    ELSE s0
          IN [s1 EXCEPT !.bids = @ \ {client_order_id},
                        !.asks = @ \ {client_order_id}]
     ELSE s0

on_order_status_message(s, client_order_id, fill_volume, remaining_volume, fees) ==
  IF remaining_volume = 0
  THEN LET s1 == IF client_order_id = s.bid_id THEN [s EXCEPT !.bid_id = 0]
                 ELSE IF client_order_id = s.ask_id THEN [s EXCEPT !.ask_id = 0]
                 ELSE s
       IN [s1 EXCEPT !.bids = @ \ {client_order_id},
                     !.asks = @ \ {client_order_id}]
  ELSE s

(* ---------------- on_error_message ---------------- *)
(* Faulty variants: a cleared bid is placed again at its recorded price;   *)
(* only buy orders are cleaned up.                                         *)
on_error_message_Requotes(s, client_order_id) ==
  IF client_order_id # 0 /\ (client_order_id \in s.bids \/ client_order_id \in s.asks)
  THEN LET s1 == on_order_status_message(s, client_order_id, 0, 0, 0)
       IN IF s.bid_id = client_order_id
          THEN LET s2 == [s1 EXCEPT !.bid_id = s1.order_ids, !.order_ids = @ + 1]
                   s3 == send_insert_order(s2, s2.bid_id, BUY, s2.bid_price,
                                           LOT_SIZE, GOOD_FOR_DAY)
               IN [s3 EXCEPT !.bids = @ \cup {s3.bid_id}]
          ELSE s1
  ELSE s

on_error_message_BidsOnly(s, client_order_id) ==
  IF client_order_id # 0 /\ client_order_id \in s.bids
  THEN on_order_status_message(s, client_order_id, 0, 0, 0)
  ELSE s

on_error_message(s, client_order_id) ==
  IF client_order_id # 0 /\ (client_order_id \in s.bids \/ client_order_id \in s.asks)
  THEN on_order_status_message(s, client_order_id, 0, 0, 0)
  ELSE s

(* ---------------- on_order_filled_message ---------------- *)
(* Faulty variant: the sign of the two sides is swapped. *)
on_order_filled_message_SidesSwapped(s, client_order_id, price, volume) ==
  IF client_order_id \in s.bids THEN [s EXCEPT !.position = @ - volume]
  ELSE IF client_order_id \in s.asks THEN [s EXCEPT !.position = @ + volume]
  ELSE s

on_order_filled_message(s, client_order_id, price, volume) ==
  IF client_order_id \in s.bids THEN [s EXCEPT !.position = @ + volume]
  ELSE IF client_order_id \in s.asks THEN [s EXCEPT !.position = @ - volume]
  ELSE s

(* ---------------- observers ---------------- *)
on_hedge_filled_message(s, client_order_id, price, volume) == s

on_trade_ticks_message(s, instrument) == s

(* ---------------- on_order_book_update_message ---------------- *)
(* Faulty variant: the mid price is rounded up. *)
mid_price_Ceiling(best_bid, best_ask) == (best_bid + best_ask + 1) \div 2

mid_price(best_bid, best_ask) == (best_bid + best_ask) \div 2

(* Faulty variant: the bid is not skewed by the position. *)
new_bid_price_Unskewed(pos, best_bid, best_ask) == best_bid

new_bid_price(pos, best_bid, best_ask) ==
  IF pos > 0 THEN mid_price(best_bid, best_ask) - 10
  ELSE IF pos < 0 THEN mid_price(best_bid, best_ask)
  ELSE best_bid

new_ask_price(pos, best_bid, best_ask) ==
  IF pos > 0 THEN mid_price(best_bid, best_ask)
  ELSE IF pos < 0 THEN mid_price(best_bid, best_ask) + 10
  ELSE best_ask

(* Faulty variants: the resting bid is cancelled without comparing prices; *)
(* the cancel is sent but the slot keeps the id; the cancel request also   *)
(* forgets the id.                                                         *)
CancelBid_KeepsSlot(s, nb) ==
  IF s.bid_id # 0 /\ nb \notin {s.bid_price, 0}
  THEN send_cancel_order(s, s.bid_id)
  ELSE s

CancelBid_AlwaysRequotes(s, nb) ==
  IF s.bid_id # 0 /\ nb # 0
  THEN [send_cancel_order(s, s.bid_id) EXCEPT !.bid_id = 0]
  ELSE s

CancelBid_Discards(s, nb) ==
  IF s.bid_id # 0 /\ nb \notin {s.bid_price, 0}
  THEN [send_cancel_order(s, s.bid_id) EXCEPT !.bid_id = 0, !.bids = @ \ {s.bid_id}]
  ELSE s

CancelBid(s, nb) ==
  IF s.bid_id # 0 /\ nb \notin {s.bid_price, 0}
  THEN [send_cancel_order(s, s.bid_id) EXCEPT !.bid_id = 0]
  ELSE s

(* Faulty variant: the resting ask is never requoted. *)
CancelAsk_Skipped(s, na) == s

CancelAsk(s, na) ==
  IF s.ask_id # 0 /\ na \notin {s.ask_price, 0}
  THEN [send_cancel_order(s, s.ask_id) EXCEPT !.ask_id = 0]
  ELSE s

(* Faulty variant: the id is drawn from order_ids before the guards. *)
PlaceBid_ConsumesId(s, nb) ==
  LET t == [s EXCEPT !.order_ids = @ + 1]
  IN IF s.bid_id = 0 /\ nb # 0 /\ s.position + LOT_SIZE < POSITION_LIMIT
     THEN LET s1 == [t EXCEPT !.bid_id = s.order_ids, !.bid_price = nb]
              s2 == send_insert_order(s1, s1.bid_id, BUY, nb, LOT_SIZE, GOOD_FOR_DAY)
          IN [s2 EXCEPT !.bids = @ \cup {s2.bid_id}]
     ELSE IF s.bid_id # 0 /\ nb = 0
     THEN [send_cancel_order(t, t.bid_id) EXCEPT !.bid_id = 0]
     ELSE t

(* Faulty variant: the computed price is not tested against 0. *)
PlaceBid_NoPriceCheck(s, nb) ==
  IF s.bid_id = 0 /\ s.position + LOT_SIZE < POSITION_LIMIT
  THEN LET s1 == [s EXCEPT !.bid_id = s.order_ids, !.order_ids = @ + 1,
                           !.bid_price = nb]
           s2 == send_insert_order(s1, s1.bid_id, BUY, nb, LOT_SIZE, GOOD_FOR_DAY)
       IN [s2 EXCEPT !.bids = @ \cup {s2.bid_id}]
  ELSE IF s.bid_id # 0 /\ nb = 0
  THEN [send_cancel_order(s, s.bid_id) EXCEPT !.bid_id = 0]
  ELSE s

(* Faulty variants: the cap is tested with <=; the slot is not tested. *)
PlaceBid_CapInclusive(s, nb) ==
  IF s.bid_id = 0 /\ nb # 0 /\ s.position + LOT_SIZE <= POSITION_LIMIT
  THEN LET s1 == [s EXCEPT !.bid_id = s.order_ids, !.order_ids = @ + 1,
                           !.bid_price = nb]
           s2 == send_insert_order(s1, s1.bid_id, BUY, nb, LOT_SIZE, GOOD_FOR_DAY)
       IN [s2 EXCEPT !.bids = @ \cup {s2.bid_id}]
  ELSE IF s.bid_id # 0 /\ nb = 0
  THEN [send_cancel_order(s, s.bid_id) EXCEPT !.bid_id = 0]
  ELSE s

PlaceBid_NoSlotCheck(s, nb) ==
  IF nb # 0 /\ s.position + LOT_SIZE < POSITION_LIMIT
  THEN LET s1 == [s EXCEPT !.bid_id = s.order_ids, !.order_ids = @ + 1,
                           !.bid_price = nb]
           s2 == send_insert_order(s1, s1.bid_id, BUY, nb, LOT_SIZE, GOOD_FOR_DAY)
       IN [s2 EXCEPT !.bids = @ \cup {s2.bid_id}]
  ELSE IF s.bid_id # 0 /\ nb = 0
  THEN [send_cancel_order(s, s.bid_id) EXCEPT !.bid_id = 0]
  ELSE s

PlaceBid(s, nb) ==
  IF s.bid_id = 0 /\ nb # 0 /\ s.position + LOT_SIZE < POSITION_LIMIT
  THEN LET s1 == [s EXCEPT !.bid_id = s.order_ids, !.order_ids = @ + 1,
                           !.bid_price = nb]
           s2 == send_insert_order(s1, s1.bid_id, BUY, nb, LOT_SIZE, GOOD_FOR_DAY)
       IN [s2 EXCEPT !.bids = @ \cup {s2.bid_id}]
  ELSE IF s.bid_id # 0 /\ nb = 0
  THEN [send_cancel_order(s, s.bid_id) EXCEPT !.bid_id = 0]
  ELSE s

(* Faulty variant: the sell cap is tested with >=. *)
PlaceAsk_CapInclusive(s, na) ==
  IF s.ask_id = 0 /\ na # 0 /\ s.position - LOT_SIZE >= -POSITION_LIMIT
  THEN LET s1 == [s EXCEPT !.ask_id = s.order_ids, !.order_ids = @ + 1,
                           !.ask_price = na]
           s2 == send_insert_order(s1, s1.ask_id, SELL, na, LOT_SIZE, GOOD_FOR_DAY)
       IN [s2 EXCEPT !.asks = @ \cup {s2.ask_id}]
  ELSE IF s.ask_id # 0 /\ na = 0
  THEN [send_cancel_order(s, s.ask_id) EXCEPT !.ask_id = 0]
  ELSE s

PlaceAsk(s, na) ==
  IF s.ask_id = 0 /\ na # 0 /\ s.position - LOT_SIZE > -POSITION_LIMIT
  THEN LET s1 == [s EXCEPT !.ask_id = s.order_ids, !.order_ids = @ + 1,
                           !.ask_price = na]
           s2 == send_insert_order(s1, s1.ask_id, SELL, na, LOT_SIZE, GOOD_FOR_DAY)
       IN [s2 EXCEPT !.asks = @ \cup {s2.ask_id}]
  ELSE IF s.ask_id # 0 /\ na = 0
  THEN [send_cancel_order(s, s.ask_id) EXCEPT !.ask_id = 0]
  ELSE s

(* Faulty variant: the insert step runs before the cancellation step. *)
on_order_book_update_message_PlacesFirst(s, instrument, best_bid, best_ask) ==
  IF instrument = FUTURE
  THEN LET nb == new_bid_price(s.position, best_bid, best_ask)
           na == new_ask_price(s.position, best_bid, best_ask)
       IN CancelAsk(CancelBid(PlaceAsk(PlaceBid(s, nb), na), nb), na)
  ELSE s

on_order_book_update_message(s, instrument, best_bid, best_ask) ==
  IF instrument = FUTURE
  THEN LET nb == new_bid_price(s.position, best_bid, best_ask)
           na == new_ask_price(s.position, best_bid, best_ask)
       IN PlaceAsk(PlaceBid(CancelAsk(CancelBid(s, nb), na), nb), na)
  ELSE s

(* ---------------- the state machine ---------------- *)
Apply(s) ==
  /\ order_ids' = s.order_ids
  /\ bids' = s.bids
  /\ asks' = s.asks
  /\ ask_id' = s.ask_id
  /\ ask_price' = s.ask_price
  /\ bid_id' = s.bid_id
  /\ bid_price' = s.bid_price
  /\ position' = s.position
  /\ sent' = s.sent

Commit(s) ==
  /\ Apply(s)
  /\ UNCHANGED hist

Init ==
  /\ order_ids = 1
  /\ bids = {}
  /\ asks = {}
  /\ ask_id = 0 /\ ask_price = 0 /\ bid_id = 0 /\ bid_price = 0 /\ position = 0
  /\ sent = <<>>
  /\ filled = <<>>
  /\ hist = [inserted |-> {}, cancelled |-> {}, finished |-> {}]

(* The host's book-keeping: the volume it has filled so far of each order  *)
(* the strategy still tracks (an order it has not yet reported finished).  *)
Track(s) ==
  [x \in s.bids \cup s.asks |-> IF x \in DOMAIN filled THEN filled[x] ELSE 0]

Fill(id, volume) ==
  [x \in DOMAIN filled |-> IF x = id THEN filled[x] + volume ELSE filled[x]]

(* Callbacks delivered in any order, with arguments of any kind; the host  *)
(* never fills more than LOT_SIZE of an order.                             *)
BookUpdate(instrument, best_bid, best_ask) ==
  LET s == on_order_book_update_message(State, instrument, best_bid, best_ask)
  IN /\ s.order_ids <= MaxOrderId + 1
     /\ Commit(s)
     /\ filled' = Track(s)

OrderFilled(id, volume) ==
  LET s == on_order_filled_message(State, id, 0, volume)
  IN /\ id \in DOMAIN filled => filled[id] + volume <= LOT_SIZE
     /\ Commit(s)
     /\ filled' = Fill(id, volume)

OrderStatus(id, fill_volume, remaining_volume, fees) ==
  LET s == on_order_status_message(State, id, fill_volume, remaining_volume, fees)
  IN /\ Commit(s)
     /\ filled' = Track(s)

Error(id) ==
  LET s == on_error_message(State, id)
  IN /\ Commit(s)
     /\ filled' = Track(s)

HedgeFilled(id, volume) ==
  /\ Commit(on_hedge_filled_message(State, id, 0, volume))
  /\ UNCHANGED filled

TradeTicks(instrument) ==
  /\ Commit(on_trade_ticks_message(State, instrument))
  /\ UNCHANGED filled

DoBookUpdate == \E i \in Instruments, b \in Books : BookUpdate(i, b[1], b[2])
DoOrderFilled == \E id \in MsgIds, v \in Volumes : OrderFilled(id, v)
DoOrderStatus ==
  \E id \in MsgIds, fv \in FillVolumes, rv \in Remainings, f \in Fees :
    OrderStatus(id, fv, rv, f)
DoError == \E id \in MsgIds : Error(id)
DoHedgeFilled == \E id \in MsgIds, v \in Volumes : HedgeFilled(id, v)
DoTradeTicks == \E i \in Instruments : TradeTicks(i)

Next ==
  \/ DoBookUpdate
  \/ DoOrderFilled
  \/ DoOrderStatus
  \/ DoError
  \/ DoHedgeFilled
  \/ DoTradeTicks

Spec == Init /\ [][Next]_vars

(* ---------------- the exchange as host ---------------- *)
(* The host as the exchange simulator behaves: it fills whole lots of an   *)
(* order it still holds, reports a filled order finished right after the   *)
(* fill, works off cancel requests in the order they were sent, and an     *)
(* order whose cancel is requested but not yet worked off can still fill.  *)
CancelRequested(id) == id \in (bids \cup asks) \ {bid_id, ask_id}

OldestCancel(id) ==
  /\ CancelRequested(id)
  /\ \A y \in bids \cup asks : CancelRequested(y) => id <= y

StatusDue == {x \in DOMAIN filled : filled[x] = LOT_SIZE}

HostBookUpdate(best_bid, best_ask) ==
  LET s == on_order_book_update_message(State, FUTURE, best_bid, best_ask)
  IN /\ StatusDue = {}
     /\ s.order_ids <= MaxHostId + 1
     /\ Commit(s)
     /\ filled' = Track(s)

HostFilled(id, volume) ==
  LET s == on_order_filled_message(State, id, 0, volume)
  IN /\ StatusDue = {}
     /\ id \in DOMAIN filled
     /\ filled[id] + volume <= LOT_SIZE
     /\ Commit(s)
     /\ filled' = Fill(id, volume)

HostStatus(id) ==
  LET s == on_order_status_message(State, id, filled[id], 0, 0)
  IN /\ id \in DOMAIN filled
     /\ id \in StatusDue \/ (StatusDue = {} /\ OldestCancel(id))
     /\ Commit(s)
     /\ filled' = Track(s)

HostError(id) ==
  LET s == on_error_message(State, id)
  IN /\ StatusDue = {}
     /\ id = 0 \/ OldestCancel(id)
     /\ Commit(s)
     /\ filled' = Track(s)

HostDoBookUpdate == \E b \in HostBooks : HostBookUpdate(b[1], b[2])
HostDoOrderFilled == \E id \in 1 .. MaxHostId, v \in HostVolumes : HostFilled(id, v)
HostDoOrderStatus == \E id \in 1 .. MaxHostId : HostStatus(id)
HostDoError == \E id \in 0 .. MaxHostId : HostError(id)

HostNext ==
  \/ HostDoBookUpdate
  \/ HostDoOrderFilled
  \/ HostDoOrderStatus
  \/ HostDoError

HostSpec == Init /\ [][HostNext]_vars

(* ---------------- one-sided market, either side ---------------- *)
(* The same host with a book that has one empty side, the same side for    *)
(* the whole run: bids only (position rises from 0) or asks only (position *)
(* falls from 0).  An update of a side is delivered only while the         *)
(* recorded prices are 0 or quotes computed from books of that side.       *)
SideBooks(side) ==
  IF side = BUY THEN HostBooks ELSE {<<b[2], b[1]>> : b \in HostBooks}

SidePositions(side) == IF side = BUY THEN {0, 1} ELSE {-1, 0}

SideQuotes(side) ==
  [bid |-> {new_bid_price(p, b[1], b[2]) : p \in SidePositions(side), b \in SideBooks(side)},
   ask |-> {new_ask_price(p, b[1], b[2]) : p \in SidePositions(side), b \in SideBooks(side)}]

CapBookUpdate(side, best_bid, best_ask) ==
  /\ bid_price \in {0} \cup SideQuotes(side).bid
  /\ ask_price \in {0} \cup SideQuotes(side).ask
  /\ HostBookUpdate(best_bid, best_ask)

CapDoBookUpdate ==
  \E side \in {BUY, SELL} : \E b \in SideBooks(side) : CapBookUpdate(side, b[1], b[2])

CapNext ==
  \/ CapDoBookUpdate
  \/ HostDoOrderFilled
  \/ HostDoOrderStatus
  \/ HostDoError

CapSpec == Init /\ [][CapNext]_vars

(* ---------------- two-sided market of the scenarios ---------------- *)
(* Books with best bid below best ask, fills of any tracked order for the  *)
(* volumes of the scenarios (a fill is not limited to the order's volume), *)
(* terminal statuses of tracked orders, in any order.                      *)
MaxQuoteId == 4
MaxPosition == 100

QuoteBooks == {<<9900, 10100>>, <<9950, 10050>>, <<9951, 10052>>, <<0, 10100>>}
QuoteVolumes == {LOT_SIZE, 50}

QuoteBookUpdate(best_bid, best_ask) ==
  LET s == on_order_book_update_message(State, FUTURE, best_bid, best_ask)
  IN /\ s.order_ids <= MaxQuoteId + 1
     /\ Commit(s)
     /\ UNCHANGED filled

QuoteFilled(id, volume) ==
  LET s == on_order_filled_message(State, id, 0, volume)
  IN /\ id \in bids \cup asks
     /\ s.position \in -MaxPosition .. MaxPosition
     /\ Commit(s)
     /\ UNCHANGED filled

QuoteStatus(id) ==
  /\ id \in bids \cup asks
  /\ Commit(on_order_status_message(State, id, 0, 0, 0))
  /\ UNCHANGED filled

QuoteDoBookUpdate == \E b \in QuoteBooks : QuoteBookUpdate(b[1], b[2])
QuoteDoOrderFilled == \E id \in 1 .. MaxQuoteId, v \in QuoteVolumes : QuoteFilled(id, v)
QuoteDoOrderStatus == \E id \in 1 .. MaxQuoteId : QuoteStatus(id)

QuoteNext ==
  \/ QuoteDoBookUpdate
  \/ QuoteDoOrderFilled
  \/ QuoteDoOrderStatus

QuoteSpec == Init /\ [][QuoteNext]_vars

(* ---------------- the run with its history ---------------- *)
(* The callbacks of Spec with the host's ordering for order ids: a status  *)
(* or an error names only an order the host has received.  hist records    *)
(* what was sent and what was processed.                                   *)
Record(h, cmds) ==
  LET Ids(type) == {cmds[k].id : k \in {j \in 1 .. Len(cmds) : cmds[j].type = type}}
  IN [h EXCEPT !.inserted = @ \cup Ids("insert"),
               !.cancelled = @ \cup Ids("cancel")]

HistBookUpdate(instrument, best_bid, best_ask) ==
  LET s == on_order_book_update_message(State, instrument, best_bid, best_ask)
  IN /\ s.order_ids <= MaxOrderId + 1
     /\ Apply(s)
     /\ hist' = Record(hist, s.sent)
     /\ filled' = Track(s)

HistStatus(id, fill_volume, remaining_volume, fees) ==
  LET s == on_order_status_message(State, id, fill_volume, remaining_volume, fees)
  IN /\ id \in hist.inserted
     /\ Apply(s)
     /\ hist' = IF remaining_volume = 0
                THEN [hist EXCEPT !.finished = @ \cup {id}]
                ELSE hist
     /\ filled' = Track(s)

HistError(id) ==
  LET s == on_error_message(State, id)
  IN /\ id \in hist.inserted \cup {0}
     /\ Apply(s)
     /\ hist' = IF id \in bids \cup asks
                THEN [hist EXCEPT !.finished = @ \cup {id}]
                ELSE hist
     /\ filled' = Track(s)

HistDoBookUpdate == \E i \in Instruments, b \in Books : HistBookUpdate(i, b[1], b[2])
HistDoOrderStatus ==
  \E id \in MsgIds, fv \in FillVolumes, rv \in Remainings, f \in Fees :
    HistStatus(id, fv, rv, f)
HistDoError == \E id \in MsgIds : HistError(id)

HistNext ==
  \/ HistDoBookUpdate
  \/ DoOrderFilled
  \/ HistDoOrderStatus
  \/ HistDoError

HistSpec == Init /\ [][HistNext]_vars

(* ======================= properties ======================= *)
IsInsert(c, side) == c.type = "insert" /\ c.side = side
IsCancel(c) == c.type = "cancel"
Sent(cmds, side) == \E k \in 1 .. Len(cmds) : IsInsert(cmds[k], side)

StatusTerminalFor(x) ==
  \E fv \in FillVolumes, f \in Fees : OrderStatus(x, fv, 0, f)

(* C1 (as stated): in every reachable state there is no resting bid while  *)
(* position + LOT_SIZE >= POSITION_LIMIT and no resting ask while          *)
(* position - LOT_SIZE <= -POSITION_LIMIT, also after fills arrive.        *)
C1_NoRestingOrderAtCap ==
  /\ bid_id # 0 => position + LOT_SIZE < POSITION_LIMIT
  /\ ask_id # 0 => position - LOT_SIZE > -POSITION_LIMIT

(* C1 (amended): the cap is respected when an order is placed: every call  *)
(* that sends a buy insert ends with position + LOT_SIZE < POSITION_LIMIT  *)
(* and every call that sends a sell insert with                            *)
(* position - LOT_SIZE > -POSITION_LIMIT (the call leaves position alone). *)
C1_CapRespectedAtInsertion ==
  /\ Sent(sent, BUY) => position + LOT_SIZE < POSITION_LIMIT
  /\ Sent(sent, SELL) => position - LOT_SIZE > -POSITION_LIMIT

C1_Witness ==
  /\ Sent(sent, BUY)
  /\ position + LOT_SIZE = POSITION_LIMIT - LOT_SIZE

(* C2: in every reachable state -POSITION_LIMIT < position <               *)
(* POSITION_LIMIT, when the host fills only orders the strategy inserted   *)
(* and at most LOT_SIZE of each, orders whose cancel is requested but not  *)
(* yet reported finished included.                                         *)
C2_PositionWithinLimit ==
  position < POSITION_LIMIT /\ position > -POSITION_LIMIT

(* C3: a buy insert is only sent by a call that found bid_id = 0 or that   *)
(* sent the cancel of the old bid before it; likewise a sell insert and    *)
(* ask_id.                                                                 *)
C3_SlotExclusivity ==
  [][\A k \in 1 .. Len(sent') :
       /\ IsInsert(sent'[k], BUY) =>
            \/ bid_id = 0
            \/ \E j \in 1 .. (k - 1) : sent'[j] = CancelCmd(bid_id)
       /\ IsInsert(sent'[k], SELL) =>
            \/ ask_id = 0
            \/ \E j \in 1 .. (k - 1) : sent'[j] = CancelCmd(ask_id)]_vars

C3_Witness ==
  /\ Len(sent) = 3
  /\ IsCancel(sent[1]) /\ sent[1].id \in bids
  /\ IsInsert(sent[2], BUY) /\ IsInsert(sent[3], SELL)

(* C4: the two outstanding sets are disjoint and a nonzero slot id is a    *)
(* member of the set of its side.                                          *)
C4_SetsDisjointSlotsTracked ==
  /\ bids \cap asks = {}
  /\ bid_id # 0 => bid_id \in bids
  /\ ask_id # 0 => ask_id \in asks

C4_Witness ==
  /\ bid_id # 0 /\ ask_id # 0
  /\ Cardinality(bids) >= 2

(* C5 (as stated): a nonzero slot changes only when a terminal status or   *)
(* an error for the id it holds is delivered.                              *)
C5_SlotHeldUntilTerminal ==
  [][/\ (bid_id # 0 /\ bid_id' # bid_id) =>
          (StatusTerminalFor(bid_id) \/ Error(bid_id))
     /\ (ask_id # 0 /\ ask_id' # ask_id) =>
          (StatusTerminalFor(ask_id) \/ Error(ask_id))]_vars

(* C5 (amended): a nonzero slot changes only when a terminal status or an  *)
(* error for the id it holds is delivered, or when an order-book update    *)
(* sends the cancel of that id (price changed, or computed price 0).       *)
C5_SlotHeldUntilTerminalOrCancel ==
  [][/\ (bid_id # 0 /\ bid_id' # bid_id) =>
          \/ StatusTerminalFor(bid_id)
          \/ Error(bid_id)
          \/ /\ \E i \in Instruments, b \in Books : BookUpdate(i, b[1], b[2])
             /\ \E k \in 1 .. Len(sent') : sent'[k] = CancelCmd(bid_id)
     /\ (ask_id # 0 /\ ask_id' # ask_id) =>
          \/ StatusTerminalFor(ask_id)
          \/ Error(ask_id)
          \/ /\ \E i \in Instruments, b \in Books : BookUpdate(i, b[1], b[2])
             /\ \E k \in 1 .. Len(sent') : sent'[k] = CancelCmd(ask_id)]_vars

C5_Witness ==
  /\ bid_id = 0 /\ ask_id = 0
  /\ Len(sent) = 2 /\ IsCancel(sent[1]) /\ IsCancel(sent[2])
  /\ sent[1].id \in bids /\ sent[2].id \in asks

(* C6: an order-book update removes nothing from the outstanding sets, so  *)
(* an id it cancels stays in its set; an id leaves a set only when a       *)
(* terminal status or an error for it is delivered; and a fill for an id   *)
(* that is in a set but no longer in its slot still moves position.        *)
C6_CancelKeepsIdTracked ==
  [][/\ \/ /\ bids \subseteq bids' /\ asks \subseteq asks'
           /\ \A k \in 1 .. Len(sent') :
                IsCancel(sent'[k]) => sent'[k].id \in bids' \cup asks'
        \/ ~ \E i \in Instruments, b \in Books : BookUpdate(i, b[1], b[2])
     /\ \A x \in (bids \ bids') \cup (asks \ asks') :
          StatusTerminalFor(x) \/ Error(x)
     /\ \A x \in (bids \cup asks) \ {bid_id, ask_id}, v \in Volumes :
          OrderFilled(x, v) =>
             position' = IF x \in bids THEN position + v ELSE position - v]_vars

C6_Witness ==
  /\ \E k \in 1 .. Len(sent) : IsCancel(sent[k]) /\ sent[k].id \in bids
  /\ \E x \in bids \ {bid_id} : filled[x] > 0

(* C7: a fill adds its volume to position for an id in outstanding_buys,   *)
(* subtracts it for an id in outstanding_sells, leaves position alone for  *)
(* any other id; it changes nothing else and sends no command.             *)
C7_FillAttribution ==
  [][\A id \in MsgIds, v \in Volumes :
       \/ /\ position' = IF id \in bids THEN position + v
                         ELSE IF id \in asks THEN position - v
                         ELSE position
          /\ UNCHANGED <<bid_id, ask_id, bid_price, ask_price, bids, asks, order_ids>>
          /\ sent' = <<>>
       \/ ~ OrderFilled(id, v)]_vars

C7_Witness ==
  \E x \in bids, y \in asks :
    /\ filled[x] = LOT_SIZE /\ filled[y] = 5
    /\ position = LOT_SIZE - 5

(* C8: order-book updates, order-status updates, errors, trade ticks and   *)
(* hedge fills leave position unchanged.                                   *)
C8_PositionOnlyFromFills ==
  [][\/ position' = position
     \/ ~ \/ \E i \in Instruments, b \in Books : BookUpdate(i, b[1], b[2])
          \/ \E id \in MsgIds, fv \in FillVolumes, rv \in Remainings, f \in Fees :
               OrderStatus(id, fv, rv, f)
          \/ \E id \in MsgIds : Error(id)
          \/ \E id \in MsgIds, v \in Volumes : HedgeFilled(id, v)
          \/ \E i \in Instruments : TradeTicks(i)]_vars

C8_Witness ==
  /\ order_ids = MaxOrderId + 1
  /\ bids = {} /\ asks = {}
  /\ position = 0

(* C9: an error for a nonzero id in one of the outstanding sets clears the *)
(* slot holding it and removes it from both sets, as the terminal status   *)
(* for it does; an error for id 0 or an untracked id changes nothing; no   *)
(* error sends a command.                                                  *)
C9_ErrorIsTerminalStatus ==
  [][\A id \in MsgIds :
       \/ /\ sent' = <<>>
          /\ UNCHANGED <<order_ids, bid_price, ask_price, position>>
          /\ IF id # 0 /\ id \in bids \cup asks
             THEN /\ bid_id' = (IF bid_id = id THEN 0 ELSE bid_id)
                  /\ ask_id' = (IF ask_id = id THEN 0 ELSE ask_id)
                  /\ bids' = bids \ {id}
                  /\ asks' = asks \ {id}
                  /\ OrderStatus(id, 0, 0, 0)
             ELSE UNCHANGED <<bid_id, ask_id, bids, asks>>
       \/ ~ Error(id)]_vars

C9_Witness ==
  /\ bid_id = 3 /\ bids = {3}
  /\ ask_id = 0 /\ asks = {2}
  /\ order_ids = 4

(* C10 (as stated): within one order-book update every cancel command is   *)
(* emitted before every insert command.                                    *)
C10_AllCancelsBeforeInserts ==
  \A k, j \in 1 .. Len(sent) :
    (IsCancel(sent[k]) /\ sent[j].type = "insert") => k < j

(* C10 (amended): within one order-book update a cancel is emitted after   *)
(* an insert only when it is the cancel of the resting ask sent because    *)
(* the computed ask price is 0, which follows the buy insert; and an       *)
(* update that inserts on a side whose slot was occupied emits the cancel  *)
(* of the old id before the insert of the fresh id of that side.           *)
C10_CancelStepBeforeInserts ==
  [][\A i \in Instruments, b \in Books :
       \/ /\ \A k, j \in 1 .. Len(sent') :
               (IsCancel(sent'[k]) /\ sent'[j].type = "insert" /\ k > j) =>
                  /\ new_ask_price(position, b[1], b[2]) = 0
                  /\ sent'[k] = CancelCmd(ask_id)
                  /\ IsInsert(sent'[j], BUY)
          /\ (bid_id # 0 /\ Sent(sent', BUY)) =>
               \E k, j \in 1 .. Len(sent') :
                  /\ k < j
                  /\ sent'[k] = CancelCmd(bid_id)
                  /\ IsInsert(sent'[j], BUY) /\ sent'[j].id = bid_id'
          /\ (ask_id # 0 /\ Sent(sent', SELL)) =>
               \E k, j \in 1 .. Len(sent') :
                  /\ k < j
                  /\ sent'[k] = CancelCmd(ask_id)
                  /\ IsInsert(sent'[j], SELL) /\ sent'[j].id = ask_id'
       \/ ~ BookUpdate(i, b[1], b[2])]_vars

C10_Witness ==
  /\ Len(sent) = 3
  /\ IsCancel(sent[1]) /\ sent[1].id \in bids
  /\ IsInsert(sent[2], BUY) /\ sent[2].id = bid_id
  /\ IsCancel(sent[3]) /\ sent[3].id \in asks

Cancels(cmds, ids) == {k \in 1 .. Len(cmds) : IsCancel(cmds[k]) /\ cmds[k].id \in ids}
Inserts(cmds, side) == {k \in 1 .. Len(cmds) : IsInsert(cmds[k], side)}

(* C11: an order-book update sends at most one cancel and at most one      *)
(* insert per side, every cancel being for an id of one of the two sets;   *)
(* when the computed price of a side is 0 it sends no insert on that side  *)
(* (the price-0 cancel and the insert exclude each other).                 *)
C11_OneCancelOneInsertPerSide ==
  [][\A i \in Instruments, b \in Books :
       \/ /\ Cardinality(Cancels(sent', bids)) <= 1
          /\ Cardinality(Cancels(sent', asks)) <= 1
          /\ \A k \in 1 .. Len(sent') :
               IsCancel(sent'[k]) => sent'[k].id \in bids \cup asks
          /\ Cardinality(Inserts(sent', BUY)) <= 1
          /\ Cardinality(Inserts(sent', SELL)) <= 1
          /\ Len(sent') <= 4
          /\ new_bid_price(position, b[1], b[2]) = 0 => Inserts(sent', BUY) = {}
          /\ new_ask_price(position, b[1], b[2]) = 0 => Inserts(sent', SELL) = {}
       \/ ~ BookUpdate(i, b[1], b[2])]_vars

C11_Witness ==
  /\ Len(sent) = 1
  /\ IsCancel(sent[1]) /\ sent[1].id \in bids
  /\ bid_id = 0 /\ ask_id = 0 /\ asks = {}

AllInserts(cmds) == Inserts(cmds, BUY) \cup Inserts(cmds, SELL)

(* C14: the first id is 1 and every callback advances order_ids by exactly *)
(* the number of inserts it sends, the inserts carrying order_ids,         *)
(* order_ids + 1, ... in the order sent: ids are strictly increasing, have *)
(* no gaps and are never reused, and an id is consumed only by an insert.  *)
C14_IdsSequentialNoGaps ==
  /\ order_ids = 1
  /\ [][/\ order_ids' = order_ids + Cardinality(AllInserts(sent'))
        /\ \A k \in AllInserts(sent') :
             sent'[k].id = order_ids
                           + Cardinality({j \in AllInserts(sent') : j < k})]_vars

C14_Witness ==
  /\ order_ids = 4
  /\ Len(sent) = 2
  /\ IsInsert(sent[1], BUY) /\ sent[1].id = 2
  /\ IsInsert(sent[2], SELL) /\ sent[2].id = 3

StateAfter ==
  [order_ids |-> order_ids', bids |-> bids', asks |-> asks',
   ask_id |-> ask_id', ask_price |-> ask_price',
   bid_id |-> bid_id', bid_price |-> bid_price',
   position |-> position', sent |-> <<>>]

(* C15: an order-status callback sends nothing; with remaining_volume # 0  *)
(* it changes no field; with remaining_volume = 0 for an id that is in     *)
(* neither set and in neither slot it changes no field; and a terminal     *)
(* status leaves a state on which the same terminal status changes         *)
(* nothing (the id is then in neither set and in neither slot).            *)
C15_CleanupIdempotent ==
  [][\A id \in MsgIds, rv \in Remainings :
       \/ /\ sent' = <<>>
          /\ rv # 0 =>
               UNCHANGED <<order_ids, bids, asks, ask_id, ask_price,
                           bid_id, bid_price, position>>
          /\ (id \notin bids \cup asks /\ (id = 0 \/ id \notin {bid_id, ask_id})) =>
               UNCHANGED <<order_ids, bids, asks, ask_id, ask_price,
                           bid_id, bid_price, position>>
          /\ rv = 0 =>
               /\ id \notin bids' \cup asks'
               /\ id # 0 => id \notin {bid_id', ask_id'}
               /\ \A fv \in FillVolumes, f \in Fees :
                    on_order_status_message(StateAfter, id, fv, rv, f) = StateAfter
       \/ \A fv \in FillVolumes, f \in Fees : ~ OrderStatus(id, fv, rv, f)]_vars

C15_Witness ==
  /\ sent = <<>>
  /\ order_ids = 3
  /\ bids = {} /\ asks = {}
  /\ bid_id = 0 /\ ask_id = 0
  /\ bid_price # 0 /\ ask_price # 0

(* C16: an insert is sent only by an order-book update for the tracked     *)
(* instrument (never by the error, status, fill, hedge or trade-ticks      *)
(* callbacks), and such an update does insert on every side whose slot is  *)
(* 0 when it arrives, whose computed price is nonzero and whose position   *)
(* guard holds.                                                            *)
C16_InsertOnlyOnBookUpdate ==
  [][/\ \/ AllInserts(sent') = {}
        \/ \E b \in Books : BookUpdate(FUTURE, b[1], b[2])
     /\ \A b \in Books :
          \/ LET nb == new_bid_price(position, b[1], b[2])
                 na == new_ask_price(position, b[1], b[2])
             IN /\ (bid_id = 0 /\ nb # 0 /\ position + LOT_SIZE < POSITION_LIMIT) =>
                     \E k \in Inserts(sent', BUY) :
                        sent'[k].price = nb /\ sent'[k].id = bid_id'
                /\ (ask_id = 0 /\ na # 0 /\ position - LOT_SIZE > -POSITION_LIMIT) =>
                     \E k \in Inserts(sent', SELL) :
                        sent'[k].price = na /\ sent'[k].id = ask_id'
          \/ ~ BookUpdate(FUTURE, b[1], b[2])]_vars

C16_Witness ==
  /\ Len(sent) = 1
  /\ IsInsert(sent[1], BUY) /\ sent[1].id = 2
  /\ bid_id = 2 /\ bids = {2}
  /\ ask_price = 0 /\ asks = {}

CapBooks == SideBooks(BUY) \cup SideBooks(SELL)

(* C12: in an order-book update, when the bid slot is 0 after the          *)
(* cancellation step and the computed bid price is nonzero, a buy insert   *)
(* is sent exactly when position + LOT_SIZE < POSITION_LIMIT (none at 90   *)
(* or above); the insert is for LOT_SIZE at the computed price with the    *)
(* next id, which becomes bid_id and a member of bids, and bid_price       *)
(* becomes the computed price.  The same on the sell side with             *)
(* position - LOT_SIZE > -POSITION_LIMIT (none at -90 or below).           *)
C12_InsertGuardStrict ==
  [][\A b \in CapBooks :
       \/ LET nb == new_bid_price(position, b[1], b[2])
              na == new_ask_price(position, b[1], b[2])
              bidSlot == IF bid_id # 0 /\ nb \notin {bid_price, 0} THEN 0 ELSE bid_id
              askSlot == IF ask_id # 0 /\ na \notin {ask_price, 0} THEN 0 ELSE ask_id
          IN /\ (bidSlot = 0 /\ nb # 0) =>
                  /\ Inserts(sent', BUY) # {} <=> position + LOT_SIZE < POSITION_LIMIT
                  /\ \A k \in Inserts(sent', BUY) :
                       /\ sent'[k] = InsertCmd(order_ids, BUY, nb, LOT_SIZE, GOOD_FOR_DAY)
                       /\ bid_id' = order_ids /\ bid_price' = nb
                       /\ order_ids \in bids'
                  /\ Inserts(sent', BUY) = {} =>
                       bid_id' = 0 /\ bid_price' = bid_price /\ bids' = bids
             /\ (askSlot = 0 /\ na # 0) =>
                  /\ Inserts(sent', SELL) # {} <=> position - LOT_SIZE > -POSITION_LIMIT
                  /\ \A k \in Inserts(sent', SELL) :
                       /\ sent'[k] = InsertCmd(order_ids' - 1, SELL, na, LOT_SIZE, GOOD_FOR_DAY)
                       /\ ask_id' = order_ids' - 1 /\ ask_price' = na
                       /\ ask_id' >= order_ids
                       /\ ask_id' \in asks'
                  /\ Inserts(sent', SELL) = {} =>
                       ask_id' = 0 /\ ask_price' = ask_price /\ asks' = asks
       \/ ~ HostBookUpdate(b[1], b[2])]_vars

C12_Witness ==
  /\ position = POSITION_LIMIT - LOT_SIZE
  /\ bid_id = 0
  /\ \E k \in 1 .. Len(sent) : IsCancel(sent[k]) /\ sent[k].id \in bids
  /\ Inserts(sent, BUY) = {}
  /\ Inserts(sent, SELL) # {}

C12_SellBoundaryReached ==
  /\ position = LOT_SIZE - POSITION_LIMIT
  /\ ask_id = 0
  /\ \E k \in 1 .. Len(sent) : IsCancel(sent[k]) /\ sent[k].id \in asks
  /\ Inserts(sent, SELL) = {}
  /\ Inserts(sent, BUY) # {}

(* C17: an order-book update whose computed price for a side equals the    *)
(* nonzero recorded price of that side's resting order sends no cancel and *)
(* no insert for that side and leaves the slot, the recorded price and the *)
(* set unchanged, whatever the position (also at position >= 90 for the    *)
(* bid and position <= -90 for the ask).                                   *)
C17_RestingOrderKeptAtLimit ==
  [][\A b \in CapBooks :
       \/ LET nb == new_bid_price(position, b[1], b[2])
              na == new_ask_price(position, b[1], b[2])
          IN /\ (bid_id # 0 /\ nb # 0 /\ nb = bid_price) =>
                  /\ bid_id' = bid_id /\ bid_price' = bid_price /\ bids' = bids
                  /\ Cancels(sent', {bid_id}) = {}
                  /\ Inserts(sent', BUY) = {}
             /\ (ask_id # 0 /\ na # 0 /\ na = ask_price) =>
                  /\ ask_id' = ask_id /\ ask_price' = ask_price /\ asks' = asks
                  /\ Cancels(sent', {ask_id}) = {}
                  /\ Inserts(sent', SELL) = {}
       \/ ~ HostBookUpdate(b[1], b[2])]_vars

C17_Witness ==
  /\ position >= POSITION_LIMIT - LOT_SIZE
  /\ bid_id # 0 /\ bid_id \in bids
  /\ sent = <<>> /\ StatusDue = {}
  /\ \E b \in SideBooks(BUY) :
       /\ new_bid_price(position, b[1], b[2]) = bid_price
       /\ ENABLED HostBookUpdate(b[1], b[2])

C17_RestingAskAtLimitReached ==
  /\ position <= LOT_SIZE - POSITION_LIMIT
  /\ ask_id # 0 /\ ask_id \in asks
  /\ sent = <<>> /\ StatusDue = {}
  /\ \E b \in SideBooks(SELL) :
       /\ new_ask_price(position, b[1], b[2]) = ask_price
       /\ ENABLED HostBookUpdate(b[1], b[2])

(* C13: in an order-book update of the tracked instrument with best bid b  *)
(* and best ask a the mid price m is the floor of (b + a) / 2, that is     *)
(* 2m <= b + a < 2m + 2; the computed quotes are (m - 10, m) for           *)
(* position > 0, (m, m + 10) for position < 0 and (b, a) for position 0;   *)
(* every insert of the update carries the computed price of its side.      *)
C13_QuoteComputation ==
  [][\A b \in QuoteBooks :
       \/ LET m == mid_price(b[1], b[2])
              eb == IF position > 0 THEN m - 10 ELSE IF position < 0 THEN m ELSE b[1]
              ea == IF position > 0 THEN m ELSE IF position < 0 THEN m + 10 ELSE b[2]
          IN /\ 2 * m <= b[1] + b[2] /\ b[1] + b[2] < 2 * m + 2
             /\ new_bid_price(position, b[1], b[2]) = eb
             /\ new_ask_price(position, b[1], b[2]) = ea
             /\ \A k \in Inserts(sent', BUY) : sent'[k].price = eb
             /\ \A k \in Inserts(sent', SELL) : sent'[k].price = ea
       \/ ~ QuoteBookUpdate(b[1], b[2])]_vars

C13_Witness ==
  /\ position < 0
  /\ \E k \in Inserts(sent, BUY) : sent[k].price = 10001
  /\ \E k \in Inserts(sent, SELL) : sent[k].price = 10011

C13_SkewDownReached ==
  /\ position > 0
  /\ \E k \in Inserts(sent, BUY) : sent[k].price = 9991
  /\ \E k \in Inserts(sent, SELL) : sent[k].price = 10001

StateNow == [State EXCEPT !.sent = sent]
StateNext == [StateAfter EXCEPT !.sent = sent']

ScenarioStart ==
  [order_ids |-> 1, bids |-> {}, asks |-> {}, ask_id |-> 0, ask_price |-> 0,
   bid_id |-> 0, bid_price |-> 0, position |-> 0, sent |-> <<>>]

ScenarioA ==
  [order_ids |-> 3, bids |-> {1}, asks |-> {2}, ask_id |-> 2, ask_price |-> 10100,
   bid_id |-> 1, bid_price |-> 9900, position |-> 0,
   sent |-> <<InsertCmd(1, BUY, 9900, 10, GOOD_FOR_DAY),
              InsertCmd(2, SELL, 10100, 10, GOOD_FOR_DAY)>>]

ScenarioAFilled == [ScenarioA EXCEPT !.position = 50, !.sent = <<>>]

ScenarioB ==
  [order_ids |-> 5, bids |-> {1, 3}, asks |-> {2, 4}, ask_id |-> 4, ask_price |-> 10000,
   bid_id |-> 3, bid_price |-> 9990, position |-> 50,
   sent |-> <<CancelCmd(1), CancelCmd(2),
              InsertCmd(3, BUY, 9990, 10, GOOD_FOR_DAY),
              InsertCmd(4, SELL, 10000, 10, GOOD_FOR_DAY)>>]

ScenarioC ==
  [ScenarioB EXCEPT !.bid_id = 0, !.bids = {1}, !.sent = <<>>]

(* C18: the run starts in the initial state; from it the update 9900/10100 *)
(* sends insert(1, BUY, 9900, 10), insert(2, SELL, 10100, 10); from there  *)
(* the fill of id 1 for 50 sets position to 50; from there the update      *)
(* 9950/10050 sends cancel(1), cancel(2), insert(3, BUY, 9990, 10),        *)
(* insert(4, SELL, 10000, 10); from there the terminal status of id 3      *)
(* leaves bid_id = 0, bids = {1}, ask_id = 4, asks = {2, 4}.               *)
C18_ScenarioABC ==
  /\ StateNow = ScenarioStart
  /\ [][/\ \/ StateNow # ScenarioStart
           \/ StateNext = ScenarioA
           \/ ~ QuoteBookUpdate(9900, 10100)
        /\ \/ StateNow # ScenarioA
           \/ StateNext = ScenarioAFilled
           \/ ~ QuoteFilled(1, 50)
        /\ \/ StateNow # ScenarioAFilled
           \/ StateNext = ScenarioB
           \/ ~ QuoteBookUpdate(9950, 10050)
        /\ \/ StateNow # ScenarioB
           \/ StateNext = ScenarioC
           \/ ~ QuoteStatus(3)]_vars

C18_Witness ==
  /\ StateNow = ScenarioC
  /\ bid_id = 0 /\ 3 \notin bids
  /\ ask_id = 4 /\ 1 \in bids /\ {2, 4} \subseteq asks

(* C20: with every tracked update having best_bid < best_ask, in every     *)
(* reachable state with both slots occupied bid_price < ask_price; and     *)
(* after every tracked update each occupied slot records the quote that    *)
(* update computed for its side, whatever the sign of position before.     *)
C20_OwnQuotesNeverCross ==
  /\ [](bid_id # 0 /\ ask_id # 0 => bid_price < ask_price)
  /\ [][\A b \in QuoteBooks :
          \/ /\ b[1] < b[2]
             /\ bid_id' # 0 => bid_price' = new_bid_price(position, b[1], b[2])
             /\ ask_id' # 0 => ask_price' = new_ask_price(position, b[1], b[2])
          \/ ~ QuoteBookUpdate(b[1], b[2])]_vars

C20_Witness ==
  /\ position < 0
  /\ Len(sent) = 4
  /\ IsCancel(sent[1]) /\ sent[1].id \in bids
  /\ IsCancel(sent[2]) /\ sent[2].id \in asks
  /\ IsInsert(sent[3], BUY) /\ sent[3].id = bid_id /\ bid_price = 10000
  /\ IsInsert(sent[4], SELL) /\ sent[4].id = ask_id /\ ask_price = 10010

(* C19: in every reachable state every id of bids other than bid_id and    *)
(* every id of asks other than ask_id is an id whose cancel has been sent; *)
(* and every cancel a callback sends is for an id that was inserted        *)
(* before, that has not been cancelled before (nor twice in the callback)  *)
(* and whose terminal status has not been processed.                       *)
C19_CancelSentOncePerTrackedId ==
  /\ [](\A x \in (bids \ {bid_id}) \cup (asks \ {ask_id}) : x \in hist.cancelled)
  /\ [][\A k \in 1 .. Len(sent') :
          IsCancel(sent'[k]) =>
            /\ sent'[k].id \in hist.inserted
            /\ sent'[k].id \notin hist.cancelled
            /\ sent'[k].id \notin hist.finished
            /\ \A j \in 1 .. Len(sent') :
                 (j # k /\ IsCancel(sent'[j])) => sent'[j].id # sent'[k].id]_vars

C19_Witness ==
  /\ hist.cancelled \cap hist.finished # {}
  /\ hist.finished \ hist.cancelled # {}
  /\ \E x \in (bids \cup asks) \ {bid_id, ask_id} : x \in hist.cancelled

====
